---- MODULE Spec2Model ----
(***************************************************************************)
(* MikroValid: the recursive validation engine (test / validate) of        *)
(* src/src/domain/MikroValid.ts, lines 15-562 (the current class).         *)
(*                                                                         *)
(* JavaScript values are modelled as records of one uniform shape, so      *)
(* that any two values can be compared:                                    *)
(*   t  the kind: "undef", "null", "bool", "num", "nan", "str", "arr",    *)
(*      "obj", "regex", and the built-in instances "date", "map", "set",   *)
(*      "iter" (an array iterator)                                         *)
(*   b  the boolean of a "bool"                                            *)
(*   n  the number of a "num"                                              *)
(*   s  the text of a "str"                                                *)
(*   ks the own keys of an "obj", in insertion order                       *)
(*   vs the values of an "obj" (parallel to ks), the items of an "arr",   *)
(*      or the alternatives of a "regex"                                   *)
(* Schemas are JavaScript objects too and are modelled the same way, so    *)
(* `for (const key in schema)` and Object.keys(schema) see every key of a  *)
(* schema node, the metadata keys included, as they do in the code.        *)
(***************************************************************************)
EXTENDS Integers, Sequences, FiniteSets, TLC

VARIABLES silent, schema, input, pc, ret, results, errors, thrown, warns,
          generated, calls, frames

vars == <<silent, schema, input, pc, ret, results, errors, thrown, warns,
          generated, calls, frames>>

(***************************************************************************)
(* JavaScript values                                                       *)
(***************************************************************************)
MkVal(t, b, n, s, ks, vs) == [t |-> t, b |-> b, n |-> n, s |-> s, ks |-> ks, vs |-> vs]

Undefined == MkVal("undef", FALSE, 0, "", <<>>, <<>>)

Null == MkVal("null", FALSE, 0, "", <<>>, <<>>)

Bool(b) == MkVal("bool", b, 0, "", <<>>, <<>>)

Num(n) == MkVal("num", FALSE, n, "", <<>>, <<>>)

Str(s) == MkVal("str", FALSE, 0, s, <<>>, <<>>)

\* the number NaN
NotANumber == MkVal("nan", FALSE, 0, "", <<>>, <<>>)

\* new Date(), new Map(), new Set() and [].keys(): objects that are neither
\* plain objects nor arrays and have no own enumerable keys
Builtin(kind) == MkVal(kind, FALSE, 0, "", <<>>, <<>>)

Arr(vs) == MkVal("arr", FALSE, 0, "", <<>>, vs)

Obj(ks, vs) == MkVal("obj", FALSE, 0, "", ks, vs)

\* The regular expression /^(alt1|alt2|...)$/ over literal alternatives: the
\* one form of matchesPattern the repository's schemas use.
Regex(alts) == MkVal("regex", FALSE, 0, "", <<>>, [i \in 1..Len(alts) |-> Str(alts[i])])

\* An array of strings, as Object.keys() returns it.
StrArr(names) == Arr([i \in 1..Len(names) |-> Str(names[i])])

\* The texts of an array of strings.
StrList(a) == [i \in 1..Len(a.vs) |-> a.vs[i].s]

Includes(list, x) == \E i \in 1..Len(list) : list[i] = x

IndexOf(list, x) == CHOOSE i \in 1..Len(list) : list[i] = x

\* `!!v`
Truthy(v) ==
    CASE v.t = "undef" -> FALSE
      [] v.t = "null" -> FALSE
      [] v.t = "bool" -> v.b
      [] v.t = "num" -> v.n # 0
      [] v.t = "nan" -> FALSE
      [] v.t = "str" -> v.s # ""
      [] OTHER -> TRUE

\* `v == null`
IsNullish(v) == v.t \in {"undef", "null"}

\* `a ?? b`
Coalesce(a, b) == IF IsNullish(a) THEN b ELSE a

\* `a || b`
OrElse(a, b) == IF Truthy(a) THEN a ELSE b

\* "0", "1", ... : the index keys of an array or a string of length n
IndexKeys(n) == [i \in 1..n |-> ToString(i - 1)]

\* Object.keys(v), for a v that is neither null nor undefined
ObjectKeys(v) ==
    CASE v.t = "obj" -> v.ks
      [] v.t = "arr" -> IndexKeys(Len(v.vs))
      [] v.t = "str" -> IndexKeys(Len(v.s))
      [] OTHER -> <<>>

\* v[key], for a v that is neither null nor undefined
Get(v, key) ==
    CASE v.t = "obj" ->
           IF Includes(v.ks, key) THEN v.vs[IndexOf(v.ks, key)] ELSE Undefined
      [] v.t = "arr" ->
           IF key = "length" THEN Num(Len(v.vs))
           ELSE IF Includes(IndexKeys(Len(v.vs)), key)
                THEN v.vs[IndexOf(IndexKeys(Len(v.vs)), key)]
                ELSE Undefined
      [] v.t = "str" ->
           IF key = "length" THEN Num(Len(v.s))
           ELSE IF Includes(IndexKeys(Len(v.s)), key)
                THEN Str(SubSeq(v.s, IndexOf(IndexKeys(Len(v.s)), key),
                                     IndexOf(IndexKeys(Len(v.s)), key)))
                ELSE Undefined
      [] OTHER -> Undefined

\* `typeof v`
TypeOf(v) ==
    CASE v.t = "undef" -> "undefined"
      [] v.t = "bool" -> "boolean"
      [] v.t = "num" -> "number"
      [] v.t = "nan" -> "number"
      [] v.t = "str" -> "string"
      [] OTHER -> "object"

RECURSIVE Join(_, _)
\* list.join(sep)
Join(list, sep) ==
    IF Len(list) = 0 THEN ""
    ELSE IF Len(list) = 1 THEN list[1]
    ELSE list[1] \o sep \o Join(Tail(list), sep)

RECURSIVE ToStr(_)
\* v.toString(), for a v that is neither null nor undefined
ToStr(v) ==
    CASE v.t = "str" -> v.s
      [] v.t = "num" -> ToString(v.n)
      [] v.t = "nan" -> "NaN"
      [] v.t = "map" -> "[object Map]"
      [] v.t = "set" -> "[object Set]"
      [] v.t = "iter" -> "[object Array Iterator]"
      [] v.t = "bool" -> IF v.b THEN "true" ELSE "false"
      [] v.t = "arr" ->
           Join([i \in 1..Len(v.vs) |->
                    IF IsNullish(v.vs[i]) THEN "" ELSE ToStr(v.vs[i])], ",")
      [] v.t = "regex" -> "/^(" \o Join([i \in 1..Len(v.vs) |-> v.vs[i].s], "|") \o ")$/"
      [] OTHER -> "[object Object]"

(***************************************************************************)
(* Text: character classes and number parsing used by the field validators *)
(***************************************************************************)
CharIn(c, class) == \E i \in 1..Len(class) : SubSeq(class, i, i) = c

Chr(s, i) == SubSeq(s, i, i)

Digits == "0123456789"

Lower == "abcdefghijklmnopqrstuvwxyz"

Upper == "ABCDEFGHIJKLMNOPQRSTUVWXYZ"

\* \s of a regular expression, as far as the modelled texts can hold it
Spaces == " "

IsDigit(c) == CharIn(c, Digits)

IsAlpha(c) == CharIn(c, Lower) \/ CharIn(c, Upper)

IsAlnum(c) == IsAlpha(c) \/ IsDigit(c)

\* every character of s[from..to] satisfies P
AllChars(s, from, to, P(_)) == \A i \in from..to : P(Chr(s, i))

DigitVal(c) == (CHOOSE i \in 1..10 : Chr(Digits, i) = c) - 1

RECURSIVE DigitsVal(_, _)
\* the value of the decimal digits s[1..to]
DigitsVal(s, to) ==
    IF to = 0 THEN 0 ELSE 10 * DigitsVal(s, to - 1) + DigitVal(Chr(s, to))

\* s is an optional minus sign followed by decimal digits
IsIntText(s) ==
    LET from == IF Len(s) > 0 /\ Chr(s, 1) = "-" THEN 2 ELSE 1
    IN  Len(s) >= from /\ AllChars(s, from, Len(s), IsDigit)

IntOfText(s) ==
    IF Chr(s, 1) = "-" THEN 0 - DigitsVal(SubSeq(s, 2, Len(s)), Len(s) - 1)
    ELSE DigitsVal(s, Len(s))

NaN == [nan |-> TRUE, n |-> 0]

Number(n) == [nan |-> FALSE, n |-> n]

\* ToNumber of a text: the empty text is 0, integer texts are their value.
\* Texts of other numeric forms (decimals, exponents, hex, padding) are
\* outside the modelled values and are treated like non-numeric text.
TextToNum(s) ==
    IF s = "" THEN Number(0)
    ELSE IF IsIntText(s) THEN Number(IntOfText(s))
    ELSE NaN

\* ToNumber(v), the coercion of the relational operators
ToNum(v) ==
    CASE v.t = "num" -> Number(v.n)
      [] v.t = "bool" -> Number(IF v.b THEN 1 ELSE 0)
      [] v.t = "null" -> Number(0)
      [] v.t = "undef" -> NaN
      [] v.t = "str" -> TextToNum(v.s)
      [] v.t = "arr" -> TextToNum(ToStr(v))
      [] OTHER -> NaN

\* `a >= b` of two values that are not both strings
GreaterOrEqual(a, b) ==
    /\ ~ToNum(a).nan
    /\ ~ToNum(b).nan
    /\ ToNum(a).n >= ToNum(b).n

\* `a <= b` of two values that are not both strings
LessOrEqual(a, b) ==
    /\ ~ToNum(a).nan
    /\ ~ToNum(b).nan
    /\ ToNum(a).n <= ToNum(b).n

\* String(v): the text a regular expression's test() sees
StringOf(v) ==
    CASE v.t = "undef" -> "undefined"
      [] v.t = "null" -> "null"
      [] OTHER -> ToStr(v)

(***************************************************************************)
(* Field validators (MikroValid.ts 358-465)                                *)
(***************************************************************************)
isArray(v) == v.t = "arr"

isObject(v) == v.t = "obj"

isCorrectType(expected, v) ==
    CASE expected = Str("string") -> TypeOf(v) = "string"
      [] expected = Str("number") -> TypeOf(v) = "number" /\ v.t # "nan"
      [] expected = Str("boolean") -> TypeOf(v) = "boolean"
      [] expected = Str("object") -> isObject(v)
      [] expected = Str("array") -> isArray(v)
      [] OTHER -> FALSE   \* no case matches: undefined, which `!` turns into a failure

\* /^[a-zA-Z0-9]+$/
IsAlphanumericText(s) == Len(s) > 0 /\ AllChars(s, 1, Len(s), IsAlnum)

\* /^-?\d+(\.\d+)?$/
IsNumericText(s) ==
    LET from == IF Len(s) > 0 /\ Chr(s, 1) = "-" THEN 2 ELSE 1
    IN  \/ Len(s) >= from /\ AllChars(s, from, Len(s), IsDigit)
        \/ \E dot \in (from + 1)..(Len(s) - 1) :
              /\ Chr(s, dot) = "."
              /\ AllChars(s, from, dot - 1, IsDigit)
              /\ AllChars(s, dot + 1, Len(s), IsDigit)

IsEmailLocalChar(c) == IsAlnum(c) \/ CharIn(c, "._-")

IsEmailDomainChar(c) == IsAlnum(c) \/ CharIn(c, ".-")

\* /^[a-zA-Z0-9._-]+@[a-zA-Z0-9.-]+\.[a-zA-Z]{2,4}$/
IsEmailText(s) ==
    \E at \in 2..Len(s) : \E dot \in (at + 2)..Len(s) :
        /\ Chr(s, at) = "@"
        /\ Chr(s, dot) = "."
        /\ AllChars(s, 1, at - 1, IsEmailLocalChar)
        /\ AllChars(s, at + 1, dot - 1, IsEmailDomainChar)
        /\ Len(s) - dot \in 2..4
        /\ AllChars(s, dot + 1, Len(s), IsAlpha)

\* /^\d{4}-\d{2}-\d{2}$/
IsDateText(s) ==
    /\ Len(s) = 10
    /\ AllChars(s, 1, 4, IsDigit)
    /\ Chr(s, 5) = "-"
    /\ AllChars(s, 6, 7, IsDigit)
    /\ Chr(s, 8) = "-"
    /\ AllChars(s, 9, 10, IsDigit)

IsNotSpace(c) == ~CharIn(c, Spaces)

IsUrlFirstChar(c) == IsNotSpace(c) /\ ~CharIn(c, "$.?#")

\* /^(https?):\/\/[^\s$.?#].[^\s]*$/
IsUrlText(s) ==
    \E p \in {7, 8} :
        /\ Len(s) >= p + 2
        /\ SubSeq(s, 1, p) = (IF p = 7 THEN "http://" ELSE "https://")
        /\ IsUrlFirstChar(Chr(s, p + 1))
        /\ AllChars(s, p + 3, Len(s), IsNotSpace)

IsHexChar(c) == IsDigit(c) \/ CharIn(c, "abcdefABCDEF")

\* /^#?([a-f0-9]{6}|[a-f0-9]{3})$/i
IsHexColorText(s) ==
    LET from == IF Len(s) > 0 /\ Chr(s, 1) = "#" THEN 2 ELSE 1
    IN  /\ Len(s) - from + 1 \in {3, 6}
        /\ AllChars(s, from, Len(s), IsHexChar)

isCorrectFormat(expected, v) ==
    CASE expected = Str("alphanumeric") -> IsAlphanumericText(StringOf(v))
      [] expected = Str("numeric") -> IsNumericText(StringOf(v))
      [] expected = Str("email") -> IsEmailText(StringOf(v))
      [] expected = Str("date") -> IsDateText(StringOf(v))
      [] expected = Str("url") -> IsUrlText(StringOf(v))
      [] expected = Str("hexColor") -> IsHexColorText(StringOf(v))
      [] OTHER -> FALSE   \* no case matches: undefined

\* input.toString() of isMinimumLength / isMaximumLength throws a TypeError
LengthThrows(v) == ~isArray(v) /\ IsNullish(v)

\* the length isMinimumLength / isMaximumLength measure
LengthOf(v) == IF isArray(v) THEN Len(v.vs) ELSE Len(ToStr(v))

isMinimumLength(minLength, v) == GreaterOrEqual(Num(LengthOf(v)), minLength)

isMaximumLength(maxLength, v) == LessOrEqual(Num(LengthOf(v)), maxLength)

isMinimumValue(minValue, v) == GreaterOrEqual(v, minValue)

isMaximumValue(maxValue, v) == LessOrEqual(v, maxValue)

\* new RegExp(pattern).test(input), for a pattern /^(alt1|alt2|...)$/
matchesPattern(pattern, v) ==
    \E i \in 1..Len(pattern.vs) : pattern.vs[i].s = StringOf(v)

(***************************************************************************)
(* Field-level validation (MikroValid.ts 285-356)                          *)
(***************************************************************************)
\* the checks of validateInput, in the order of its `checks` array
Checks == <<"type", "format", "minLength", "maxLength", "minValue", "maxValue",
            "matchesPattern">>

CheckError(name) ==
    CASE name = "type" -> "Invalid type"
      [] name = "format" -> "Invalid format"
      [] name = "minLength" -> "Length too short"
      [] name = "maxLength" -> "Length too long"
      [] name = "minValue" -> "Value too small"
      [] name = "maxValue" -> "Value too large"
      [] name = "matchesPattern" -> "Pattern does not match"

\* check.condition()
CheckCondition(name, properties) == Truthy(Get(properties, name))

\* check.validator() throws
CheckThrows(name, match) == name \in {"minLength", "maxLength"} /\ LengthThrows(match)

\* check.validator()
CheckValidator(name, properties, match) ==
    CASE name = "type" -> isCorrectType(Get(properties, name), match)
      [] name = "format" -> isCorrectFormat(Get(properties, name), match)
      [] name = "minLength" -> isMinimumLength(Get(properties, name), match)
      [] name = "maxLength" -> isMaximumLength(Get(properties, name), match)
      [] name = "minValue" -> isMinimumValue(Get(properties, name), match)
      [] name = "maxValue" -> isMaximumValue(Get(properties, name), match)
      [] name = "matchesPattern" -> matchesPattern(Get(properties, name), match)

RECURSIVE RunChecks(_, _, _)
\* the loop `for (const check of checks)` from check i on
RunChecks(properties, match, i) ==
    IF i > Len(Checks) THEN [success |-> TRUE, error |-> "", thrown |-> FALSE]
    ELSE IF ~CheckCondition(Checks[i], properties) THEN RunChecks(properties, match, i + 1)
    ELSE IF CheckThrows(Checks[i], match)
         THEN [success |-> FALSE, error |-> "", thrown |-> TRUE]
    ELSE IF ~CheckValidator(Checks[i], properties, match)
         THEN [success |-> FALSE, error |-> CheckError(Checks[i]), thrown |-> FALSE]
    ELSE RunChecks(properties, match, i + 1)

\* {success, error?} of validateInput; `warned` when it called console.warn
validateInput(isSilent, properties, match) ==
    IF Truthy(properties)
    THEN RunChecks(properties, match, 1) @@ [warned |-> FALSE]
    ELSE [success |-> TRUE, error |-> "", thrown |-> FALSE, warned |-> ~isSilent]

\* the Result validateProperty builds from what validateInput returned
\* (`error ?? ''`), with what validateInput did
ResultOf(key, value, validation) ==
    [result |-> [key |-> key, value |-> value, success |-> validation.success,
                 error |-> validation.error],
     thrown |-> validation.thrown,
     warned |-> validation.warned]

validateProperty(isSilent, key, properties, value) ==
    ResultOf(key, value, validateInput(isSilent, properties, value))

(***************************************************************************)
(* The validation engine (MikroValid.ts 101-280).                          *)
(*                                                                         *)
(* The `results` and `errors` arrays one test() call shares by reference   *)
(* are threaded through the operators as an accumulator:                   *)
(*   results, errors  the two arrays                                       *)
(*   thrown           a TypeError was thrown: nothing after it runs        *)
(*   warns            the number of console.warn calls                     *)
(*   depth, maxDepth  the current and the deepest nesting of validate()    *)
(***************************************************************************)
EmptyAcc ==
    [results |-> <<>>, errors |-> <<>>, thrown |-> FALSE, warns |-> 0,
     depth |-> 0, maxDepth |-> 0]

Throw(acc) == [acc EXCEPT !.thrown = TRUE]

Max(a, b) == IF a >= b THEN a ELSE b

\* results.push(validation), validation being what validateProperty returned
PushResult(acc, validation) ==
    IF acc.thrown THEN acc
    ELSE IF validation.thrown THEN Throw(acc)
    ELSE [acc EXCEPT !.results = Append(@, validation.result),
                     !.warns = @ + (IF validation.warned THEN 1 ELSE 0)]

isDefined(value) == Truthy(value) \/ value = Str("")

findNonOverlappingElements(target, truth) ==
    SelectSeq(target, LAMBDA value : ~Includes(truth, value))

\* Object.keys(input) of areRequiredKeysPresent throws a TypeError: the
\* default `input = []` replaces undefined only, and every() calls back only
\* for a non-empty list
RequiredKeysThrow(requiredKeys, inputValue) ==
    Len(requiredKeys) > 0 /\ inputValue.t = "null"

areRequiredKeysPresent(requiredKeys, inputValue) ==
    LET given == IF inputValue.t = "undef" THEN Arr(<<>>) ELSE inputValue
    IN  \A i \in 1..Len(requiredKeys) : Includes(ObjectKeys(given), requiredKeys[i])

\* `schema?.required || []` as a list of names (required lists are arrays of
\* strings in every schema; a node without one gives the empty list)
RequiredOf(node) == StrList(OrElse(Get(node, "required"), Arr(<<>>)))

checkForRequiredKeysErrors(requiredKeys, inputValue, acc) ==
    IF acc.thrown THEN acc
    ELSE IF RequiredKeysThrow(requiredKeys, inputValue) THEN Throw(acc)
    ELSE IF areRequiredKeysPresent(requiredKeys, inputValue) THEN acc
    ELSE LET inputKeys == IF Truthy(inputValue) THEN ObjectKeys(inputValue) ELSE <<>>
             missingKeys == findNonOverlappingElements(requiredKeys, inputKeys)
         IN  [acc EXCEPT !.errors = Append(@,
                 [key |-> "",
                  value |-> inputValue,
                  success |-> FALSE,
                  error |-> "Missing the required key: '" \o Join(missingKeys, ", ") \o "'!"])]

\* checkForDisallowedProperties without its test of isAdditionalsOk
checkForDisallowedPropertiesStrict(inputKeys, propertyKeys, acc, isAdditionalsOk) ==
    IF acc.thrown THEN acc
    ELSE LET additionals == findNonOverlappingElements(inputKeys, propertyKeys)
         IN  IF Len(additionals) = 0 THEN acc
             ELSE [acc EXCEPT !.errors = Append(@,
                     [key |-> Join(propertyKeys, ","),
                      value |-> StrArr(inputKeys),
                      success |-> FALSE,
                      error |-> "Has additional (disallowed) properties: '"
                                    \o Join(additionals, ", ") \o "'!"])]

checkForDisallowedProperties(inputKeys, propertyKeys, acc, isAdditionalsOk) ==
    IF acc.thrown \/ Truthy(isAdditionalsOk) THEN acc
    ELSE LET additionals == findNonOverlappingElements(inputKeys, propertyKeys)
         IN  IF Len(additionals) = 0 THEN acc
             ELSE [acc EXCEPT !.errors = Append(@,
                     [key |-> Join(propertyKeys, ","),
                      value |-> StrArr(inputKeys),
                      success |-> FALSE,
                      error |-> "Has additional (disallowed) properties: '"
                                    \o Join(additionals, ", ") \o "'!"])]

RECURSIVE validateItems(_, _, _, _, _, _)
\* inputKey.forEach(arrayItem => ...) of handleValidation, from item i on
validateItems(isSilent, key, items, inputKey, i, acc) ==
    IF acc.thrown \/ i > Len(inputKey.vs) THEN acc
    ELSE validateItems(isSilent, key, items, inputKey, i + 1,
             PushResult(acc, validateProperty(isSilent, key, items, inputKey.vs[i])))

RECURSIVE validateInnerKeys(_, _, _, _, _)
\* keys.forEach(innerKey => ...) of handleValidation, over the keys left
validateInnerKeys(isSilent, keys, inputKey, propertyKey, acc) ==
    IF acc.thrown \/ Len(keys) = 0 THEN acc
    ELSE validateInnerKeys(isSilent, Tail(keys), inputKey, propertyKey,
             PushResult(acc, validateProperty(isSilent, Head(keys),
                                              Get(propertyKey, Head(keys)),
                                              Get(inputKey, Head(keys)))))

\* handleValidation after its first results.push(validation)
validateContents(isSilent, key, inputKey, propertyKey, acc) ==
    IF isArray(inputKey) /\ ~IsNullish(Get(propertyKey, "items"))
    THEN validateItems(isSilent, key, Get(propertyKey, "items"), inputKey, 1, acc)
    ELSE IF isObject(inputKey)
    THEN validateInnerKeys(isSilent, ObjectKeys(inputKey), inputKey, propertyKey, acc)
    ELSE acc

handleValidation(isSilent, key, inputKey, propertyKey, acc) ==
    validateContents(isSilent, key, inputKey, propertyKey,
        PushResult(acc, validateProperty(isSilent, key, propertyKey, inputKey)))

\* Object.keys(item).filter(key => { if (this.isObject(item)) return key; }):
\* the filter keeps a key when the returned key is truthy
getNestedObjects(item) ==
    SelectSeq(ObjectKeys(item), LAMBDA key : isObject(item) /\ key # "")

RECURSIVE validate(_, _, _, _)
RECURSIVE validateKeys(_, _, _, _, _, _)
RECURSIVE validateNested(_, _, _, _, _)
RECURSIVE handleNestedObject(_, _, _, _)

\* the loop `for (const nested of nestedObjects)` of handleNestedObject
validateNested(isSilent, nestedObjects, inputKey, propertyKey, acc) ==
    IF acc.thrown \/ Len(nestedObjects) = 0 THEN acc
    ELSE validateNested(isSilent, Tail(nestedObjects), inputKey, propertyKey,
             IF /\ Truthy(Get(propertyKey, Head(nestedObjects)))
                /\ Truthy(Get(inputKey, Head(nestedObjects)))
             THEN validate(isSilent, Get(propertyKey, Head(nestedObjects)),
                           Get(inputKey, Head(nestedObjects)), acc)
             ELSE acc)

handleNestedObject(isSilent, inputKey, propertyKey, acc) ==
    IF acc.thrown \/ ~isObject(inputKey) THEN acc
    ELSE validateNested(isSilent, getNestedObjects(inputKey), inputKey, propertyKey, acc)

\* the body of `if (this.isDefined(inputKey))` without its call of
\* checkForDisallowedProperties
validateDefinedUnchecked(isSilent, key, inputKey, propertyKey, acc) ==
    IF acc.thrown \/ ~isDefined(inputKey) THEN acc
    ELSE handleNestedObject(isSilent, inputKey, propertyKey,
             handleValidation(isSilent, key, inputKey, propertyKey, acc))

\* the body of `if (this.isDefined(inputKey))` in the loop of validate
validateDefined(isSilent, key, inputKey, propertyKey, acc) ==
    IF acc.thrown \/ ~isDefined(inputKey) THEN acc
    ELSE handleNestedObject(isSilent, inputKey, propertyKey,
             checkForDisallowedProperties(
                 ObjectKeys(inputKey), ObjectKeys(propertyKey),
                 handleValidation(isSilent, key, inputKey, propertyKey, acc),
                 Coalesce(Get(propertyKey, "additionalProperties"), Bool(TRUE))))

\* one pass of the loop `for (const key in schema)` of validate, for
\* propertyKey = schema[key] and inputKey = input[key]
validatePair(isSilent, isKeyRequired, key, inputKey, propertyKey, acc) ==
    IF acc.thrown THEN acc
    ELSE IF IsNullish(propertyKey) THEN Throw(acc)   \* propertyKey.additionalProperties
    ELSE validateDefined(isSilent, key, inputKey, propertyKey,
             IF isKeyRequired
             THEN checkForRequiredKeysErrors(RequiredOf(propertyKey), inputKey, acc)
             ELSE acc)

validateKey(isSilent, node, inputValue, requiredKeys, key, acc) ==
    validatePair(isSilent, Includes(requiredKeys, key) /\ key # "required", key,
                 Get(inputValue, key), Get(node, key), acc)

\* the loop `for (const key in schema)` of validate, over the keys left
validateKeys(isSilent, node, inputValue, requiredKeys, keys, acc) ==
    IF acc.thrown \/ Len(keys) = 0 THEN acc
    ELSE validateKeys(isSilent, node, inputValue, requiredKeys, Tail(keys),
             validateKey(isSilent, node, inputValue, requiredKeys, Head(keys), acc))

\* validate entered through one more call of itself
EnterTwice(acc) == [acc EXCEPT !.depth = @ + 2, !.maxDepth = Max(@, acc.depth + 2)]

\* validate is entered: one more call is open
Enter(acc) == [acc EXCEPT !.depth = @ + 1, !.maxDepth = Max(@, acc.depth + 1)]

Leave(acc, depth) == [acc EXCEPT !.depth = depth]

\* validate(schema, input, results, errors), for a node and an input value
\* that are truthy, as they are at each of its two call sites
validate(isSilent, node, inputValue, acc) ==
    IF acc.thrown THEN acc
    ELSE Leave(validateKeys(isSilent, node, inputValue, RequiredOf(node), ObjectKeys(node),
                   checkForDisallowedProperties(
                       ObjectKeys(inputValue), ObjectKeys(node),
                       checkForRequiredKeysErrors(RequiredOf(node), inputValue, Enter(acc)),
                       Coalesce(Get(node, "additionalProperties"), Bool(TRUE)))),
               acc.depth)

(***************************************************************************)
(* Aggregation and the facade (MikroValid.ts 68-99)                        *)
(***************************************************************************)
\* compileErrors without its filter on result.success
compileErrorsUnfiltered(rs, es) == es \o rs

\* [...errors, ...resultErrors].flatMap(error => error): every element is a
\* Result object, never an array, so flatMap keeps each as it is
compileErrors(rs, es) ==
    es \o SelectSeq(rs, LAMBDA result : result.success = FALSE)

\* isSuccessful without its test of errors.length
isSuccessfulResultsOnly(rs, aggregatedErrors) ==
    \A i \in 1..Len(rs) : rs[i].success = TRUE

isSuccessful(rs, aggregatedErrors) ==
    /\ \A i \in 1..Len(rs) : rs[i].success = TRUE
    /\ Len(aggregatedErrors) = 0

\* test() without its input check
MissingInputUnchecked(inputValue) == FALSE

\* `if (!input) throw new Error('Missing input!')`
MissingInput(inputValue) == ~Truthy(inputValue)

(***************************************************************************)
(* The schemas and inputs test() is called with.                           *)
(*                                                                         *)
(* A scenario nests one schema node (the focus) and its input object under *)
(* 0..MaxDepth wrapper levels `o`, so that each combination of the focus   *)
(* is validated as the root properties node and at each nesting depth.     *)
(* The focus declares a leaf `a` and, optionally, a nested object `o` with *)
(* a leaf `c`; `x` is a key no schema declares.                            *)
(***************************************************************************)
MaxDepth == 2

\* a schema node: `type: 'object'` when typed, the children, then `required`
\* (when the list is not empty) and `additionalProperties` (unless "none")
MkNode(typed, ks, vs, req, addl) ==
    Obj((IF typed THEN <<"type">> ELSE <<>>) \o ks
            \o (IF req # <<>> THEN <<"required">> ELSE <<>>)
            \o (IF addl # "none" THEN <<"additionalProperties">> ELSE <<>>),
        (IF typed THEN <<Str("object")>> ELSE <<>>) \o vs
            \o (IF req # <<>> THEN <<StrArr(req)>> ELSE <<>>)
            \o (IF addl # "none" THEN <<Bool(addl = "true")>> ELSE <<>>))

\* an object of the keys whose value is given: "-" marks an absent key
MkInput(ks, vs) ==
    LET present == SelectSeq([i \in 1..Len(ks) |-> i], LAMBDA i : vs[i] # Str("-"))
    IN  Obj([j \in 1..Len(present) |-> ks[present[j]]],
            [j \in 1..Len(present) |-> vs[present[j]]])

Absent == Str("-")

LeafSchemas ==
    { Obj(<<"type">>, <<Str("string")>>),
      Obj(<<"minLength">>, <<Num(1)>>) }

ChildNodes ==
    { MkNode(FALSE, <<"c">>, <<Obj(<<"type">>, <<Str("string")>>)>>, req, addl) :
        req \in {<<>>, <<"c">>}, addl \in {"none", "false"} }

FocusSchemas(typed) ==
    { MkNode(typed, <<"a">>, <<leaf>>, req, addl) :
        leaf \in LeafSchemas,
        req \in {<<>>, <<"a">>, <<"o">>, <<"a", "o">>, <<"o", "a">>},
        addl \in {"none", "true", "false"} }
    \cup
    { MkNode(typed, <<"a", "o">>, <<leaf, child>>, req, addl) :
        leaf \in LeafSchemas,
        child \in ChildNodes,
        req \in {<<>>, <<"a">>, <<"o">>, <<"a", "o">>, <<"o", "a">>},
        addl \in {"none", "true", "false"} }

ChildInputs ==
    { Absent, Null,
      Obj(<<>>, <<>>),
      Obj(<<"c">>, <<Str("s")>>),
      Obj(<<"x">>, <<Str("s")>>),
      Obj(<<"c", "x">>, <<Str("s"), Str("s")>>),
      Obj(<<"c">>, <<Null>>) }

FocusInputs ==
    { MkInput(<<"a", "o", "x">>, <<a, o, x>>) :
        a \in {Absent, Str("s"), Null},
        o \in ChildInputs,
        x \in {Absent, Str("s")} }

RECURSIVE WrapSchema(_, _, _)
\* the focus under k wrapper levels; level i lists `o` as required iff req[i]
WrapSchema(k, req, focus) ==
    IF k = 0 THEN focus
    ELSE MkNode(k < Len(req), <<"o">>, <<WrapSchema(k - 1, req, focus)>>,
                IF req[k] THEN <<"o">> ELSE <<>>, "none")

RECURSIVE WrapInput(_, _)
WrapInput(k, focus) ==
    IF k = 0 THEN focus ELSE Obj(<<"o">>, <<WrapInput(k - 1, focus)>>)

\* the root schema: `properties`, and `required` / `additionalProperties`
\* next to it in the forms the README shows
RootForms == {"plain", "required", "additionalProperties"}

RootSchema(form, properties) ==
    CASE form = "plain" -> Obj(<<"properties">>, <<properties>>)
      [] form = "required" ->
           Obj(<<"properties", "required">>, <<properties, StrArr(<<"a">>)>>)
      [] form = "additionalProperties" ->
           Obj(<<"properties", "additionalProperties">>, <<properties, Bool(FALSE)>>)

NoRet == [success |-> FALSE, errors |-> <<>>]

Init ==
    /\ silent = FALSE
    /\ \E k \in 0..MaxDepth : \E req \in [1..k -> BOOLEAN] :
       \E form \in RootForms : \E focus \in FocusSchemas(k > 0) :
       \E given \in FocusInputs \cup {Null, Undefined} :
          /\ form = "plain" \/ k = 0
          /\ given \in {Null, Undefined} => k = 0
          /\ schema = RootSchema(form, WrapSchema(k, req, focus))
          /\ input = WrapInput(k, given)
    /\ pc = "ready"
    /\ ret = NoRet
    /\ results = <<>>
    /\ errors = <<>>
    /\ thrown = "none"
    /\ warns = 0
    /\ generated = Undefined
    /\ calls = 1
    /\ frames = 0

(***************************************************************************)
(* test(schema, input) (MikroValid.ts 68-82)                               *)
(***************************************************************************)
\* validate called with the results list an earlier call filled
NewAccumulatorsSharedResults(rs, es) == [EmptyAcc EXCEPT !.results = rs]

\* validate called with the errors list an earlier call filled
NewAccumulatorsSharedErrors(rs, es) == [EmptyAcc EXCEPT !.errors = es]

\* the lists the call this.validate(schema.properties, input) of test()
\* starts with: the default parameters `results = []` and `errors = []` are
\* evaluated anew at every call, whatever lists (rs, es) an earlier call used
NewAccumulators(rs, es) == EmptyAcc

\* what test() returns for the results and errors validate returned
TestResult(rs, es) ==
    [errors |-> compileErrors(rs, es),
     success |-> isSuccessful(rs, compileErrors(rs, es))]

\* `if (!input) throw new Error('Missing input!')`
TestMissingInput ==
    /\ pc = "ready"
    /\ MissingInput(input)
    /\ pc' = "thrown"
    /\ thrown' = "Error: Missing input!"
    /\ UNCHANGED <<silent, schema, input, ret, results, errors, warns,
                   generated, calls, frames>>

\* test() past the input check: validate returns and test() returns its
\* result, or a TypeError thrown inside validate leaves test() without one
TestValidate ==
    /\ pc = "ready"
    /\ ~MissingInput(input)
    /\ \E v \in {validate(silent, Get(schema, "properties"), input,
                          NewAccumulators(results, errors))} :
          /\ results' = v.results
          /\ errors' = v.errors
          /\ warns' = warns + v.warns
          /\ \/ /\ v.thrown
                /\ pc' = "thrown"
                /\ thrown' = "TypeError"
                /\ ret' = ret
             \/ /\ ~v.thrown
                /\ pc' = "returned"
                /\ thrown' = thrown
                /\ ret' = TestResult(v.results, v.errors)
          /\ frames' = v.maxDepth
    /\ UNCHANGED <<silent, schema, input, generated, calls>>

Next == TestMissingInput \/ TestValidate

Spec == Init /\ [][Next]_vars

(***************************************************************************)
(* schemaFrom(input) (MikroValid.ts 488-561)                               *)
(***************************************************************************)
\* obj[key] = value: an own key keeps its place, a new one comes last
SetKey(obj, key, value) ==
    IF Includes(obj.ks, key)
    THEN [obj EXCEPT !.vs[IndexOf(obj.ks, key)] = value]
    ELSE [obj EXCEPT !.ks = Append(@, key), !.vs = Append(@, value)]

\* stands for a schema whose construction threw a TypeError
TypeErrorValue == MkVal("TypeError", FALSE, 0, "", <<>>, <<>>)

generatePropertySchema(value) ==
    IF TypeOf(value) = "string"
    THEN Obj(<<"type", "minLength">>, <<Str("string"), Num(1)>>)
    ELSE Obj(<<"type">>, <<Str(TypeOf(value))>>)

\* `typeof value === 'object' && !Array.isArray(value) && value !== null`
IsObjectValue(value) ==
    TypeOf(value) = "object" /\ ~isArray(value) /\ value # Null

RECURSIVE generateNestedObjectSchema(_)
RECURSIVE generateNestedKeys(_, _, _)
\* the schema of a key of a nested object
generateNestedValue(value) ==
    IF IsObjectValue(value) THEN generateNestedObjectSchema(value)
    ELSE generatePropertySchema(value)

\* schema[key] = inferred, unless inferring threw
SetInferred(node, key, inferred) ==
    IF inferred = TypeErrorValue THEN TypeErrorValue ELSE SetKey(node, key, inferred)

\* one pass of the loop `for (const key in input)` of
\* generateNestedObjectSchema: schema.required.push(key) throws a TypeError
\* when an earlier key named `required` has replaced the list
generateNestedKey(node, sample, key) ==
    IF ~isArray(Get(node, "required")) THEN TypeErrorValue
    ELSE SetInferred(
             SetKey(node, "required",
                    Arr(Append(Get(node, "required").vs, Str(key)))),
             key, generateNestedValue(Get(sample, key)))

generateNestedKeys(node, sample, keys) ==
    IF node = TypeErrorValue \/ Len(keys) = 0 THEN node
    ELSE generateNestedKeys(generateNestedKey(node, sample, Head(keys)),
                            sample, Tail(keys))

generateNestedObjectSchema(sample) ==
    generateNestedKeys(
        Obj(<<"type", "additionalProperties", "required">>,
            <<Str("object"), Bool(FALSE), Arr(<<>>)>>),
        sample, ObjectKeys(sample))

\* generateArraySchema keeping the falsy elements
cleanedArrayUnfiltered(array) == array.vs

\* array.filter((element) => element)
cleanedArray(array) == SelectSeq(array.vs, Truthy)

\* cleanedArray.every((element) => typeof element === typeof firstElement)
allOfSameType(cleaned) ==
    \A i \in 1..Len(cleaned) : TypeOf(cleaned[i]) = TypeOf(cleaned[1])

\* the `items` generateArraySchema infers from the first element left
generateItems(firstElement) ==
    IF TypeOf(firstElement) = "object" /\ ~isArray(firstElement)
    THEN generateNestedObjectSchema(firstElement)
    ELSE generatePropertySchema(firstElement)

\* generateArraySchema warns: elements are left and differ in type
arrayWarns(array) ==
    Len(cleanedArray(array)) > 0 /\ ~allOfSameType(cleanedArray(array))

generateArraySchema(array) ==
    IF Len(cleanedArray(array)) > 0 /\ allOfSameType(cleanedArray(array))
    THEN SetInferred(Obj(<<"type">>, <<Str("array")>>), "items",
                     generateItems(cleanedArray(array)[1]))
    ELSE Obj(<<"type">>, <<Str("array")>>)

\* schemaFrom inferring every value as a scalar
generateValueAsScalar(value) == generatePropertySchema(value)

\* the schema schemaFrom infers for the value of a top-level key
generateValue(value) ==
    IF isArray(value) THEN generateArraySchema(value)
    ELSE IF TypeOf(value) = "object" /\ value # Null
         THEN generateNestedObjectSchema(value)
         ELSE generatePropertySchema(value)

\* schema.properties[key] = inferred, unless inferring threw
SetProperty(node, key, inferred) ==
    IF inferred = TypeErrorValue THEN TypeErrorValue
    ELSE SetKey(node, "properties", SetKey(Get(node, "properties"), key, inferred))

RECURSIVE schemaFromKeys(_, _, _)
\* the loop `for (const key in input)` of schemaFrom, over the keys left
schemaFromKeys(node, sample, keys) ==
    IF node = TypeErrorValue \/ Len(keys) = 0 THEN node
    ELSE schemaFromKeys(
             SetProperty(
                 SetKey(node, "required",
                        Arr(Append(Get(node, "required").vs, Str(Head(keys))))),
                 Head(keys), generateValue(Get(sample, Head(keys)))),
             sample, Tail(keys))

\* the keys `for (const key in input)` visits: none for null and undefined
ForInKeys(sample) == IF IsNullish(sample) THEN <<>> ELSE ObjectKeys(sample)

schemaFrom(sample) ==
    schemaFromKeys(
        Obj(<<"properties", "additionalProperties", "required">>,
            <<Obj(<<>>, <<>>), Bool(FALSE), Arr(<<>>)>>),
        sample, ForInKeys(sample))

\* the number of console.warn calls of schemaFrom(input): one for every
\* top-level array whose elements differ in type, silent or not
schemaFromWarns(sample) ==
    Cardinality({i \in 1..Len(ForInKeys(sample)) :
                    /\ isArray(Get(sample, ForInKeys(sample)[i]))
                    /\ arrayWarns(Get(sample, ForInKeys(sample)[i]))})

\* the keys of a nested object whose values generateNestedObjectSchema
\* infers: those up to a key named `required`, after which push throws
NestedVisited(sample) ==
    IF Includes(ObjectKeys(sample), "required")
    THEN SubSeq(ObjectKeys(sample), 1, IndexOf(ObjectKeys(sample), "required"))
    ELSE ObjectKeys(sample)

\* the largest number of a set of naturals, 0 for the empty set
MaxOf(S) == IF S = {} THEN 0 ELSE CHOOSE n \in S : \A m \in S : m <= n

RECURSIVE nestedObjectDepth(_)
\* the number of generateNestedObjectSchema calls open at once while the
\* schema of the nested object is generated
nestedObjectDepth(sample) ==
    1 + MaxOf({IF IsObjectValue(Get(sample, NestedVisited(sample)[i]))
               THEN nestedObjectDepth(Get(sample, NestedVisited(sample)[i]))
               ELSE 0 : i \in 1..Len(NestedVisited(sample))})

\* the generateNestedObjectSchema calls open at once under one top-level
\* value: through generateArraySchema for the first element left of an
\* array of one type, directly for a non-null object
valueDepth(value) ==
    IF isArray(value)
    THEN IF Len(cleanedArray(value)) > 0 /\ allOfSameType(cleanedArray(value))
            /\ TypeOf(cleanedArray(value)[1]) = "object"
            /\ ~isArray(cleanedArray(value)[1])
         THEN nestedObjectDepth(cleanedArray(value)[1])
         ELSE 0
    ELSE IF TypeOf(value) = "object" /\ value # Null
         THEN nestedObjectDepth(value)
         ELSE 0

\* the top-level keys schemaFrom visits: those up to the first whose
\* value throws
TopVisited(sample) ==
    SelectSeq(ForInKeys(sample),
              LAMBDA key : \A i \in 1..(IndexOf(ForInKeys(sample), key) - 1) :
                  generateValue(Get(sample, ForInKeys(sample)[i])) # TypeErrorValue)

\* the depth of the recursion of schemaFrom(sample): the call of schemaFrom
\* and the generateNestedObjectSchema calls open at once below it
schemaFromDepth(sample) ==
    1 + MaxOf({valueDepth(Get(sample, TopVisited(sample)[i])) :
                  i \in 1..Len(TopVisited(sample))})

\* schemaFrom(input) called on its own: it returns the schema inferred and
\* warns once per top-level array of mixed types, or a TypeError leaves it
SchemaFrom ==
    /\ pc = "sample"
    /\ \E g \in {schemaFrom(input)} :
          /\ pc' = IF g = TypeErrorValue THEN "thrown" ELSE "generated"
          /\ thrown' = IF g = TypeErrorValue THEN "TypeError" ELSE thrown
          /\ generated' = IF g = TypeErrorValue THEN generated ELSE g
    /\ warns' = warns + schemaFromWarns(input)
    /\ frames' = schemaFromDepth(input)
    /\ UNCHANGED <<silent, schema, input, ret, results, errors, calls>>

\* the number of calls made on one validator
MaxCalls == 3

\* the caller passes the schema schemaFrom returned, with the sample it was
\* inferred from, to test()
UseGenerated ==
    /\ pc = "generated"
    /\ calls < MaxCalls
    /\ schema' = generated
    /\ pc' = "ready"
    /\ calls' = calls + 1
    /\ UNCHANGED <<silent, input, ret, results, errors, thrown, warns, generated,
                   frames>>

(***************************************************************************)
(* Round trip: schemaFrom(sample), then test(schemaFrom(sample), sample)   *)
(***************************************************************************)
SampleLeaves ==
    {Str("s"), Str(""), Num(0), Num(1), Bool(TRUE), Bool(FALSE), Null}

SampleArrays ==
    { Arr(<<>>), Arr(<<Num(1)>>), Arr(<<Num(0), Num(1)>>), Arr(<<Str("s")>>),
      Arr(<<Str(""), Str("s")>>), Arr(<<Num(1), Str("s")>>),
      Arr(<<Arr(<<Num(1)>>)>>), Arr(<<Obj(<<"b">>, <<Num(1)>>)>>),
      Arr(<<Num(0)>>), Arr(<<Num(0), Str("s")>>),
      Arr(<<Num(1), Obj(<<"b">>, <<Num(1)>>)>>) }

SampleObjects ==
    {Obj(<<>>, <<>>)}
    \cup {Obj(<<"b">>, <<leaf>>) : leaf \in SampleLeaves}
    \cup {Obj(<<"l">>, <<array>>) : array \in SampleArrays}
    \cup {Obj(<<"q">>, <<Obj(<<"b">>, <<leaf>>)>>) : leaf \in SampleLeaves}

SampleValues == SampleLeaves \cup SampleArrays \cup SampleObjects

Samples ==
    {Obj(<<>>, <<>>)}
    \cup {Obj(<<"z">>, <<z>>) : z \in SampleValues}
    \cup {Obj(<<"z", "a">>, <<z, a>>) : z \in SampleValues, a \in SampleValues}

InitInfer ==
    /\ silent = FALSE
    /\ schema = Undefined
    /\ input \in Samples \cup {Null}
    /\ pc = "sample"
    /\ ret = NoRet
    /\ results = <<>>
    /\ errors = <<>>
    /\ thrown = "none"
    /\ warns = 0
    /\ generated = Undefined
    /\ calls = 1
    /\ frames = 0

NextInfer == SchemaFrom \/ UseGenerated \/ TestMissingInput \/ TestValidate

SpecInfer == InitInfer /\ [][NextInfer]_vars

(***************************************************************************)
(* Several calls on one validator                                          *)
(***************************************************************************)
CallSchemas ==
    { RootSchema("plain", MkNode(FALSE, <<"a">>, <<Obj(<<"type">>, <<Str("string")>>)>>,
                                 <<"a">>, "false")),
      RootSchema("plain", MkNode(FALSE, <<"o">>,
                                 <<Obj(<<"c">>, <<Obj(<<"type">>, <<Str("number")>>)>>)>>,
                                 <<>>, "none")) }

CallInputs ==
    { Null,
      Obj(<<"a">>, <<Str("s")>>),
      Obj(<<"a", "x">>, <<Num(1), Num(1)>>),
      Obj(<<"o">>, <<Obj(<<"c", "x">>, <<Str("s"), Num(1)>>)>>),
      Obj(<<"m">>, <<Arr(<<Num(1), Str("s")>>)>>) }

\* the caller makes the next call on the same validator: test(sch, inp) or
\* schemaFrom(inp)
NewCall ==
    /\ pc \in {"returned", "thrown", "generated"}
    /\ calls < MaxCalls
    /\ \E sch \in CallSchemas : \E inp \in CallInputs : \E op \in {"ready", "sample"} :
          /\ schema' = IF op = "ready" THEN sch ELSE schema
          /\ input' = inp
          /\ pc' = op
    /\ calls' = calls + 1
    /\ UNCHANGED <<silent, ret, results, errors, thrown, warns, generated, frames>>

InitCalls ==
    /\ silent \in BOOLEAN
    /\ schema \in CallSchemas
    /\ input \in CallInputs
    /\ pc \in {"ready", "sample"}
    /\ ret = NoRet
    /\ results = <<>>
    /\ errors = <<>>
    /\ thrown = "none"
    /\ warns = 0
    /\ generated = Undefined
    /\ calls = 1
    /\ frames = 0

NextCalls ==
    NewCall \/ SchemaFrom \/ UseGenerated \/ TestMissingInput \/ TestValidate

SpecCalls == InitCalls /\ [][NextCalls]_vars

(***************************************************************************)
(* Field values: one declared property p with a leaf schema, directly      *)
(* under the validated level or inside nested objects                      *)
(***************************************************************************)
\* the object of the key/value pairs given, in their order
Pair(k, v) == <<[k |-> k, v |-> v]>>

\* the pair of a key that is there unless its value is undefined
Opt(k, v) == IF v = Undefined THEN <<>> ELSE Pair(k, v)

ObjOf(pairs) ==
    Obj([i \in 1..Len(pairs) |-> pairs[i].k], [i \in 1..Len(pairs) |-> pairs[i].v])

FieldSchema(type, minValue, maxValue, items) ==
    ObjOf(Opt("type", type) \o Opt("minValue", minValue)
              \o Opt("maxValue", maxValue) \o Opt("items", items))

\* the bounds of minValue and maxValue
FieldBounds == {Undefined} \cup {Num(b) : b \in {-1, 0, 1}}

FieldSchemas ==
    { FieldSchema(Str(t), Undefined, Undefined, Undefined) :
        t \in {"string", "boolean", "object"} }
    \cup
    { FieldSchema(type, minValue, maxValue, Undefined) :
        type \in {Undefined, Str("number")},
        minValue \in FieldBounds, maxValue \in FieldBounds }
    \cup
    { FieldSchema(type, Undefined, Undefined, items) :
        type \in {Undefined, Str("array")},
        items \in {Undefined, Obj(<<"type">>, <<Str("number")>>)} }

\* new Date() and the like are given to properties that declare a `type`
BuiltinValues == {Builtin(kind) : kind \in {"date", "map", "set", "iter"}}

FieldValues ==
    { Undefined, Null, NotANumber, Str(""), Str("s"), Bool(TRUE), Bool(FALSE),
      Obj(<<>>, <<>>), Obj(<<"length">>, <<Num(1)>>),
      Arr(<<>>), Arr(<<Num(1)>>), Arr(<<Str("s")>>), Arr(<<Num(1), Str("s")>>) }
    \cup {Num(n) : n \in -2..2}
    \cup BuiltinValues

\* the node that declares p, listing it as required or not
FieldNode(leaf, isRequired) ==
    MkNode(FALSE, <<"p">>, <<leaf>>, IF isRequired THEN <<"p">> ELSE <<>>, "none")

\* the input object of p's level: p with the value, or no p at all
FieldInput(isGiven, value) ==
    IF isGiven THEN Obj(<<"p">>, <<value>>) ELSE Obj(<<>>, <<>>)

InitFields ==
    /\ silent = FALSE
    /\ \E k \in 0..MaxDepth : \E leaf \in FieldSchemas : \E isRequired \in BOOLEAN :
       \E isGiven \in BOOLEAN : \E value \in FieldValues :
          /\ value \in BuiltinValues => Get(leaf, "type") # Undefined
          /\ ~isGiven => value = Undefined
          /\ schema = RootSchema("plain",
                          WrapSchema(k, [i \in 1..k |-> FALSE],
                                     FieldNode(leaf, isRequired)))
          /\ input \in {WrapInput(k, FieldInput(isGiven, value))}
                          \cup (IF k = 0 /\ ~isGiven THEN {Null} ELSE {})
    /\ pc = "ready"
    /\ ret = NoRet
    /\ results = <<>>
    /\ errors = <<>>
    /\ thrown = "none"
    /\ warns = 0
    /\ generated = Undefined
    /\ calls = 1
    /\ frames = 0

SpecFields == InitFields /\ [][Next]_vars

(***************************************************************************)
(* A generated schema used on other inputs: test(schemaFrom(sample), x)    *)
(***************************************************************************)
\* the inputs x the generated schema is tested with: objects with some of
\* the keys z and a of the samples, with a key y no sample has, and null
ShapeInputs ==
    {Null}
    \cup {Obj(ks, [i \in 1..Len(ks) |-> Str("s")]) :
             ks \in {<<>>, <<"z">>, <<"a">>, <<"z", "a">>, <<"y">>,
                      <<"z", "y">>, <<"z", "a", "y">>}}

\* the caller passes the schema schemaFrom returned to test(), with an
\* input of its own
TestGeneratedWith ==
    /\ pc = "generated"
    /\ calls < MaxCalls
    /\ \E x \in ShapeInputs : input' = x
    /\ schema' = generated
    /\ pc' = "ready"
    /\ calls' = calls + 1
    /\ UNCHANGED <<silent, ret, results, errors, thrown, warns, generated, frames>>

NextShape == SchemaFrom \/ TestGeneratedWith \/ TestMissingInput \/ TestValidate

SpecShape == InitInfer /\ [][NextShape]_vars

(***************************************************************************)
(* Field checks: one declared property p whose leaf schema combines the    *)
(* keys type, format, minLength, maxLength, minValue, maxValue and         *)
(* matchesPattern                                                          *)
(***************************************************************************)
CheckSchema(type, format, minLength, maxLength, minValue, maxValue, pattern) ==
    ObjOf(Opt("type", type) \o Opt("format", format)
              \o Opt("minLength", minLength) \o Opt("maxLength", maxLength)
              \o Opt("minValue", minValue) \o Opt("maxValue", maxValue)
              \o Opt("matchesPattern", pattern))

\* the bounds of minLength, maxLength, minValue and maxValue
CheckBounds == {Undefined, Num(0), Num(2)}

CheckSchemas ==
    { CheckSchema(type, format, minLength, maxLength, minValue, maxValue, pattern) :
        type \in {Undefined, Str("string"), Str("number")},
        format \in {Undefined, Str("numeric")},
        minLength \in CheckBounds, maxLength \in CheckBounds,
        minValue \in CheckBounds, maxValue \in CheckBounds,
        pattern \in {Undefined, Regex(<<"ab", "12">>)} }

CheckValues ==
    { Str(""), Str("1"), Str("12"), Str("ab"), Str("abc"),
      Num(1), Num(12), Num(123),
      Arr(<<>>), Arr(<<Num(1)>>), Arr(<<Num(1), Num(2), Num(3)>>) }

InitChecks ==
    /\ silent = FALSE
    /\ \E k \in 0..MaxDepth : \E leaf \in CheckSchemas : \E value \in CheckValues :
          /\ schema = RootSchema("plain",
                          WrapSchema(k, [i \in 1..k |-> FALSE],
                                     FieldNode(leaf, FALSE)))
          /\ input \in {WrapInput(k, FieldInput(TRUE, value))}
                          \cup (IF k = 0 THEN {Null} ELSE {})
    /\ pc = "ready"
    /\ ret = NoRet
    /\ results = <<>>
    /\ errors = <<>>
    /\ thrown = "none"
    /\ warns = 0
    /\ generated = Undefined
    /\ calls = 1
    /\ frames = 0

SpecChecks == InitChecks /\ [][Next]_vars

(***************************************************************************)
(* Input keys named like schema keywords: a node that declares the         *)
(* property a next to its metadata keys, and inputs with keys `type` and   *)
(* `required`                                                              *)
(***************************************************************************)
KeywordNodes ==
    { MkNode(typed, <<"a">>, <<Obj(<<"type">>, <<Str("string")>>)>>, req, addl) :
        typed \in BOOLEAN, req \in {<<>>, <<"a">>}, addl \in {"none", "false"} }

\* the objects with some of the keys a, type, required and x
KeywordInputs ==
    { MkInput(<<"a", "type", "required", "x">>, <<a, t, r, x>>) :
        a \in {Absent, Str("s")}, t \in {Absent, Str("s")},
        r \in {Absent, Str("s")}, x \in {Absent, Str("s")} }

InitKeywords ==
    /\ silent = FALSE
    /\ \E k \in 0..MaxDepth : \E node \in KeywordNodes : \E level \in KeywordInputs :
          /\ schema = RootSchema("plain", WrapSchema(k, [i \in 1..k |-> FALSE], node))
          /\ input \in {WrapInput(k, level)}
                          \cup (IF k = 0 THEN {Null} ELSE {})
    /\ pc = "ready"
    /\ ret = NoRet
    /\ results = <<>>
    /\ errors = <<>>
    /\ thrown = "none"
    /\ warns = 0
    /\ generated = Undefined
    /\ calls = 1
    /\ frames = 0

SpecKeywords == InitKeywords /\ [][Next]_vars

(***************************************************************************)
(* Termination: the round trip under weak fairness, every call that has    *)
(* started runs to its end                                                 *)
(***************************************************************************)
\* the step that ends a running call: test() returns or throws, schemaFrom()
\* returns or throws
CallEnds ==
    /\ pc \in {"ready", "sample"}
    /\ pc' \in {"returned", "thrown", "generated"}

\* JavaScript runs a call to completion: a call that has started is not
\* suspended forever
SpecInferFair == SpecInfer /\ WF_pc(CallEnds)

(***************************************************************************)
(* Claims                                                                  *)
(***************************************************************************)
Returned == pc = "returned"

Failed(rs) == SelectSeq(rs, LAMBDA r : ~r.success)

\* the number of elements of seq equal to e
Count(seq, e) == Cardinality({i \in 1..Len(seq) : seq[i] = e})

\* C1: when test() returns, success is true iff every Leaf Result produced
\* has success=true and no Structural Error was appended, and iff the
\* returned errors list is empty.
C1_SuccessIffNoViolation ==
    Returned =>
        /\ ret.success <=> ((\A i \in 1..Len(results) : results[i].success)
                             /\ Len(errors) = 0)
        /\ ret.success <=> (Len(ret.errors) = 0)

\* test() returned success=false for structural errors alone: every Leaf
\* Result produced passed
C1_Witness ==
    /\ Returned
    /\ ~ret.success
    /\ Len(errors) > 0
    /\ Len(results) > 0
    /\ \A i \in 1..Len(results) : results[i].success

\* C2: the returned errors are the Structural Errors in the order they were
\* appended, followed by the failed Leaf Results in traversal order: nothing
\* dropped, reordered or duplicated, and no successful Leaf Result among them.
C2_ErrorsOrder ==
    Returned =>
        /\ Len(ret.errors) = Len(errors) + Len(Failed(results))
        /\ \A i \in 1..Len(errors) : ret.errors[i] = errors[i]
        /\ \A j \in 1..Len(Failed(results)) :
              ret.errors[Len(errors) + j] = Failed(results)[j]
        /\ \A i \in 1..Len(ret.errors) : ~ret.errors[i].success

\* test() returned two Structural Errors and a failed Leaf Result, having
\* also produced a successful one
C2_Witness ==
    /\ Returned
    /\ Len(errors) >= 2
    /\ Len(Failed(results)) >= 1
    /\ Len(Failed(results)) < Len(results)

\* C3: with a null or undefined input test() throws 'Missing input!' before
\* any validation step: it returns nothing and produces no Leaf Result and
\* no Structural Error.
C3_MissingInputThrows ==
    (input \in {Null, Undefined} /\ pc # "ready") =>
        /\ pc = "thrown"
        /\ thrown = "Error: Missing input!"
        /\ ret = NoRet
        /\ results = <<>>
        /\ errors = <<>>
        /\ warns = 0

\* test() was called with a null input and has thrown
C3_Witness == input = Null /\ pc = "thrown"


\* C4: a missing input is the only failure test() throws: for an input that
\* is a non-null object, whatever its nested leaves hold, test() returns.
C4_ObjectInputNeverThrows ==
    (isObject(input) /\ pc # "ready") => pc = "returned"

\* the names of a list-valued schema field, or none when the field is absent
NamesOf(node, field) ==
    IF isArray(Get(node, field)) THEN StrList(Get(node, field)) ELSE <<>>

\* the names of a required list that are not keys of the input object, in
\* the list's order
MissingNames(requiredNames, obj) ==
    SelectSeq(requiredNames, LAMBDA name : ~Includes(ObjectKeys(obj), name))

\* the Structural Error for a level of input obj that lacks the names
MissingKeyError(names, obj) ==
    [key |-> "", value |-> obj, success |-> FALSE,
     error |-> "Missing the required key: '" \o Join(names, ", ") \o "'!"]

\* C5: with `required` declared next to `properties` in the root schema and
\* an input lacking one of the listed keys, test() returns success=false and
\* the first returned error is the structural error of the whole input (key
\* '') that reports the missing key.
C5_RootRequiredSibling ==
    (/\ Returned
     /\ MissingNames(NamesOf(schema, "required"), input) # <<>>) =>
        /\ ~ret.success
        /\ Len(ret.errors) > 0
        /\ ret.errors[1] =
              MissingKeyError(MissingNames(NamesOf(schema, "required"), input),
                              input)

\* C6: with additionalProperties:false declared next to `properties` in the
\* root schema and an input holding a top-level key that properties does not
\* declare, test() returns success=false.
C6_RootAdditionalPropertiesSibling ==
    (/\ Returned
     /\ Get(schema, "additionalProperties") = Bool(FALSE)
     /\ \E i \in 1..Len(ObjectKeys(input)) :
           ~Includes(ObjectKeys(Get(schema, "properties")),
                     ObjectKeys(input)[i])) =>
        ~ret.success


\* the schema keywords, which name no child property of a node
ReservedKeys ==
    {"type", "format", "items", "minLength", "maxLength", "minValue",
     "maxValue", "matchesPattern", "required", "additionalProperties"}

\* the child properties of a schema node that are themselves schema nodes
\* and whose value in the input object is an object
RECURSIVE Levels(_, _)
NestedKeys(node, obj) ==
    {k \in {ObjectKeys(node)[i] : i \in 1..Len(ObjectKeys(node))} :
        /\ k \notin ReservedKeys
        /\ isObject(Get(node, k))
        /\ isObject(Get(obj, k))}

\* every level of the traversal: a schema node with the input object that
\* corresponds to it, from (node, obj) downwards
Levels(node, obj) ==
    {[node |-> node, obj |-> obj]}
        \cup UNION {Levels(Get(node, k), Get(obj, k)) : k \in NestedKeys(node, obj)}

\* the levels below the root
NestedLevels(node, obj) ==
    UNION {Levels(Get(node, k), Get(obj, k)) : k \in NestedKeys(node, obj)}

MissingAt(level) == MissingNames(NamesOf(level.node, "required"), level.obj)

\* C7: every level whose required list holds names absent from the input
\* object's own keys gets exactly one Structural Error, with message
\* "Missing the required key: '<names>'!" listing exactly the missing names
\* in the list's order joined by ', ', key '' and the level's input object
\* as value.
C7_OneMissingKeyErrorPerLevel ==
    Returned =>
        \A level \in Levels(Get(schema, "properties"), input) :
            MissingAt(level) # <<>> =>
                Count(errors, MissingKeyError(MissingAt(level), level.obj)) = 1

\* C8: at every nesting depth a node's own required list is enforced when
\* its input object is present, whether or not the node's key is listed in
\* its parent's required: the missing names yield a structural error and
\* success=false.
C8_RequiredEnforcedAtEveryDepth ==
    Returned =>
        \A level \in NestedLevels(Get(schema, "properties"), input) :
            MissingAt(level) # <<>> =>
                /\ ~ret.success
                /\ \E i \in 1..Len(ret.errors) :
                      ret.errors[i] = MissingKeyError(MissingAt(level), level.obj)


\* the input object without the keys its schema node neither holds nor
\* requires, at every level that allows additional properties
\* (additionalProperties absent or true)
RECURSIVE Strip(_, _)
KeptKeys(node, obj) ==
    SelectSeq(ObjectKeys(obj),
              LAMBDA k : \/ Includes(ObjectKeys(node), k)
                         \/ Includes(NamesOf(node, "required"), k)
                         \/ Get(node, "additionalProperties") = Bool(FALSE))

StripKey(node, obj, k) ==
    IF Includes(ObjectKeys(node), k) /\ k \notin ReservedKeys
    THEN Strip(Get(node, k), Get(obj, k))
    ELSE Get(obj, k)

StripKeys(node, obj, keys) ==
    Obj(keys, [i \in 1..Len(keys) |-> StripKey(node, obj, keys[i])])

Strip(node, obj) ==
    IF isObject(node) /\ isObject(obj)
    THEN StripKeys(node, obj, KeptKeys(node, obj))
    ELSE obj

\* the outcome of test() agrees with the outcome v of validate
SameOutcome(v) ==
    /\ v.thrown <=> (pc = "thrown")
    /\ Returned =>
          /\ TestResult(v.results, v.errors).success = ret.success
          /\ Len(v.errors) = Len(errors)
          /\ Len(Failed(v.results)) = Len(Failed(results))

\* C9: where additionalProperties is absent or true, undeclared input keys
\* produce no Structural Error and no failed Leaf Result: test() ends as it
\* does for the input without those keys, so adding undeclared keys never
\* turns success from true to false.
C9_AdditionalKeysAllowed ==
    (isObject(input) /\ pc # "ready") =>
        SameOutcome(validate(silent, Get(schema, "properties"),
                             Strip(Get(schema, "properties"), input), EmptyAcc))

\* test() returned success=true for an input with an undeclared key in a
\* nested object whose node allows additional properties
C9_Witness ==
    /\ Returned
    /\ ret.success
    /\ \E level \in NestedLevels(Get(schema, "properties"), input) :
          Strip(level.node, level.obj) # level.obj

\* the keys of a level's input object that its schema node does not hold
ExtraneousAt(level) ==
    SelectSeq(ObjectKeys(level.obj),
              LAMBDA k : ~Includes(ObjectKeys(level.node), k))

\* the levels with additionalProperties=false and extraneous input keys
Offending(levels) ==
    {level \in levels : /\ Get(level.node, "additionalProperties") = Bool(FALSE)
                        /\ ExtraneousAt(level) # <<>>}

\* the Structural Error of a level with extraneous keys
AdditionalError(level) ==
    [key |-> Join(ObjectKeys(level.node), ","),
     value |-> StrArr(ObjectKeys(level.obj)),
     success |-> FALSE,
     error |-> "Has additional (disallowed) properties: '"
                   \o Join(ExtraneousAt(level), ", ") \o "'!"]

IsAdditionalError(e) ==
    Len(e.error) >= 14 /\ SubSeq(e.error, 1, 14) = "Has additional"

\* C10: every level with additionalProperties=false whose input object holds
\* keys absent from the schema at that level gets exactly one Structural
\* Error, whose message lists all extraneous keys of the level; the other
\* levels get none.
C10_OneAdditionalErrorPerLevel ==
    Returned =>
        /\ \A level \in Offending(Levels(Get(schema, "properties"), input)) :
              Count(errors, AdditionalError(level)) = 1
        /\ Cardinality({i \in 1..Len(errors) : IsAdditionalError(errors[i])})
              = Cardinality(Offending(Levels(Get(schema, "properties"), input)))

\* test() returned with extraneous keys at two levels that disallow them
C10_Witness ==
    /\ Returned
    /\ Cardinality(Offending(Levels(Get(schema, "properties"), input))) >= 2


RECURSIVE PropertyNode(_)
\* the schema node that declares p, below the wrapper levels
PropertyNode(node) ==
    IF Includes(ObjectKeys(node), "p") THEN node ELSE PropertyNode(Get(node, "o"))

RECURSIVE PropertyLevel(_)
\* the input object of the level where p is declared
PropertyLevel(obj) ==
    IF Includes(ObjectKeys(obj), "o") THEN PropertyLevel(Get(obj, "o")) ELSE obj

\* the leaf schema of p and the value the input gives it
LeafSchema == Get(PropertyNode(Get(schema, "properties")), "p")

GivenValue == Get(PropertyLevel(input), "p")

\* test() was called with an object input
Tested == isObject(input) /\ pc # "ready"

\* the failed Leaf Result of p
FailedLeaf(value, error) ==
    [key |-> "p", value |-> value, success |-> FALSE, error |-> error]

\* test() returned success=false with the failed Leaf Result of p
Rejects(error) ==
    /\ Returned
    /\ ~ret.success
    /\ Includes(ret.errors, FailedLeaf(GivenValue, error))

\* the values the named type must reject: NaN for 'number', arrays and
\* built-in instances for 'object', array-likes for 'array'
WrongKind(type, value) ==
    \/ type = Str("number") /\ value = NotANumber
    \/ type = Str("object") /\ (value.t = "arr" \/ value \in BuiltinValues)
    \/ type = Str("array") /\ (value = Obj(<<"length">>, <<Num(1)>>)
                                \/ value.t \in {"iter", "set", "map"})

\* C11: for a property declared with `type`, 'number' rejects NaN, 'object'
\* rejects arrays and built-in instances (Date, Map, Set), 'array' rejects
\* array-like values that are no arrays: test() returns success=false with
\* the failed Leaf Result 'Invalid type' of the property.
C11_TypeRejects ==
    (Tested /\ WrongKind(Get(LeafSchema, "type"), GivenValue)) =>
        Rejects("Invalid type")


\* a Leaf Result of p for the value given was produced
Validated ==
    \E i \in 1..Len(results) : results[i].key = "p" /\ results[i].value = GivenValue

\* C12: the values 0 and false count as present: a declared property with
\* such a value is validated and produces a Leaf Result, so a 0 or false
\* given to a property of type 'string' or 'object' makes test() return
\* success=false.
C12_ZeroAndFalsePresent ==
    (Tested /\ GivenValue \in {Num(0), Bool(FALSE)}) =>
        /\ Returned
        /\ Validated
        /\ Get(LeafSchema, "type") \in {Str("string"), Str("object")} =>
              Rejects("Invalid type")


\* a Leaf Result of p was produced, whatever its value
ProducedLeaf == \E i \in 1..Len(results) : results[i].key = "p"

\* C13: at every nesting depth a declared child whose input value is null or
\* undefined is not present: it produces no Leaf Result and no field-level
\* error; an empty string is present and is validated.
C13_NullishNotPresent ==
    Tested =>
        /\ GivenValue \in {Null, Undefined} => (Returned /\ ~ProducedLeaf)
        /\ GivenValue = Str("") => (Returned /\ Validated)


\* the bound of the leaf schema is there and the number v is beyond it
TooSmall(v) ==
    /\ Get(LeafSchema, "minValue") # Undefined
    /\ v.n < Get(LeafSchema, "minValue").n

TooLarge(v) ==
    /\ Get(LeafSchema, "maxValue") # Undefined
    /\ v.n > Get(LeafSchema, "maxValue").n

\* C14: range checks are inclusive and apply whenever the bound is in the
\* property schema, for every number and every bound, 0 and negative ones
\* included: the value fails with 'Value too small' iff it is below
\* minValue and with 'Value too large' iff it is above maxValue, the failed
\* Leaf Result being the one error returned.
C14_InclusiveRange ==
    (Tested /\ GivenValue.t = "num") =>
        /\ Returned
        /\ TooSmall(GivenValue) <=> Rejects("Value too small")
        /\ (TooLarge(GivenValue) /\ ~TooSmall(GivenValue))
              <=> Rejects("Value too large")
        /\ ~ret.success => Len(ret.errors) = 1


\* the number of Leaf Results of p with the value given
LeafCount(value) ==
    Cardinality({i \in 1..Len(results) :
                    results[i].key = "p" /\ results[i].value = value})

\* the number of elements of the array equal to the value
ElementCount(array, value) ==
    Cardinality({i \in 1..Len(array.vs) : array.vs[i] = value})

\* C15: when a present value is an array and its property schema declares
\* `items`, every element is validated against `items` and produces its own
\* Leaf Result under the array's property name, at every nesting depth, so
\* an element that violates items.type makes success=false.
C15_ArrayItemsValidated ==
    (Tested /\ isArray(GivenValue) /\ Get(LeafSchema, "items") # Undefined) =>
        /\ Returned
        /\ \A i \in 1..Len(GivenValue.vs) :
              /\ LeafCount(GivenValue.vs[i]) = ElementCount(GivenValue, GivenValue.vs[i])
              /\ GivenValue.vs[i].t # "num" =>
                    /\ ~ret.success
                    /\ Includes(ret.errors, FailedLeaf(GivenValue.vs[i], "Invalid type"))


\* a call of test() or schemaFrom() is about to run
Calling == pc \in {"ready", "sample"}

\* what validate collects for the arguments, started with lists of its own
OwnRun == validate(FALSE, Get(schema, "properties"), input, EmptyAcc)

C18_SilentNeverWarns ==
    silent =>
        /\ warns = 0
        /\ Returned => ret = TestResult(OwnRun.results, OwnRun.errors)
        /\ pc = "generated" => generated = schemaFrom(input)


RECURSIVE HasNullishLeaf(_)
\* the sample holds a null or undefined value somewhere
HasNullishLeaf(value) ==
    \/ IsNullish(value)
    \/ /\ value.t \in {"obj", "arr"}
       /\ \E i \in 1..Len(value.vs) : HasNullishLeaf(value.vs[i])

RECURSIVE HasMixedArray(_)
\* the sample holds an array whose elements differ in type somewhere
HasMixedArray(value) ==
    \/ /\ value.t = "arr"
       /\ \E i, j \in 1..Len(value.vs) : TypeOf(value.vs[i]) # TypeOf(value.vs[j])
    \/ /\ value.t \in {"obj", "arr"}
       /\ \E i \in 1..Len(value.vs) : HasMixedArray(value.vs[i])

\* test(schemaFrom(sample), sample) has been called
RoundTripped ==
    /\ isObject(input)
    /\ generated # Undefined
    /\ schema = generated
    /\ pc \in {"returned", "thrown"}

\* C19: round trip: for a sample with no null/undefined leaves and no
\* type-mixed arrays (empty strings, arrays inside objects and arrays of
\* arrays included) test(schemaFrom(sample), sample) returns success=true
\* and no errors.
C19_RoundTrip ==
    (RoundTripped /\ ~HasNullishLeaf(input) /\ ~HasMixedArray(input)) =>
        /\ Returned
        /\ ret.success
        /\ ret.errors = <<>>


\* the node is the schema inferred for a top-level value: an array schema
\* for an array, a nested Schema Node requiring all keys for a plain
\* object, the Property Schema of its runtime type for a scalar
InferredFor(value, node) ==
    IF value.t = "arr" THEN Get(node, "type") = Str("array")
    ELSE IF value.t = "obj"
         THEN /\ Get(node, "type") = Str("object")
              /\ Get(node, "additionalProperties") = Bool(FALSE)
              /\ Get(node, "required") = StrArr(value.ks)
         ELSE IF value.t = "str"
              THEN node = Obj(<<"type", "minLength">>, <<Str("string"), Num(1)>>)
              ELSE node = Obj(<<"type">>, <<Str(TypeOf(value))>>)

\* C20: schemaFrom(sample) returns a root schema {properties,
\* additionalProperties:false, required} in which required lists every own
\* key of the sample once, in enumeration order, and properties has exactly
\* those keys, each with the schema inferred for the key's value.
C20_RootSchemaShape ==
    (pc = "generated" /\ isObject(input)) =>
        /\ generated.t = "obj"
        /\ generated.ks = <<"properties", "additionalProperties", "required">>
        /\ Get(generated, "additionalProperties") = Bool(FALSE)
        /\ Get(generated, "required") = StrArr(input.ks)
        /\ Get(generated, "properties").t = "obj"
        /\ Get(generated, "properties").ks = input.ks
        /\ \A i \in 1..Len(input.ks) :
              InferredFor(input.vs[i], Get(generated, "properties").vs[i])

\* schemaFrom returned the schema of a sample with an array and an object
C20_Witness ==
    /\ pc = "generated"
    /\ isObject(input)
    /\ Len(input.ks) = 2
    /\ input.vs[1].t = "arr"
    /\ input.vs[2].t = "obj"
    /\ Len(input.vs[2].ks) > 0


\* the schema schemaFrom infers for the value when it is the value of a
\* top-level key
TopLevelSchema(value) ==
    Get(Get(schemaFrom(Obj(<<"k">>, <<value>>)), "properties"), "k")

RECURSIVE SameRulesBelow(_, _)
\* every key of the nested plain object has the schema its value gets at
\* the top level, and so on below
SameRulesBelow(value, node) ==
    \A i \in 1..Len(value.ks) :
        /\ InferredFor(value.vs[i], Get(node, value.ks[i]))
        /\ Get(node, value.ks[i]) = TopLevelSchema(value.vs[i])
        /\ value.vs[i].t = "obj" =>
              SameRulesBelow(value.vs[i], Get(node, value.ks[i]))

\* C21: schemaFrom applies the same inference rules at every nesting depth:
\* a key of a nested plain object gets an array schema for an array, a
\* nested Schema Node (additionalProperties:false, required listing all of
\* its keys) for a plain object and {type:<runtime type>} (with minLength:1
\* for a string) for a scalar, the schema it would get at the top level.
C21_SameRulesAtEveryDepth ==
    (pc = "generated" /\ isObject(input)) =>
        \A i \in 1..Len(input.ks) :
            input.vs[i].t = "obj" =>
                SameRulesBelow(input.vs[i], Get(Get(generated, "properties"), input.ks[i]))


\* the elements of the array that are not falsy
Remaining(array) == SelectSeq(array.vs, Truthy)

\* elements remain and all of them have the runtime type of the first
Homogeneous(array) ==
    /\ Len(Remaining(array)) > 0
    /\ \A i \in 1..Len(Remaining(array)) :
          TypeOf(Remaining(array)[i]) = TypeOf(Remaining(array)[1])

\* the Property Schema of a value that is not a plain object
PrimitiveSchema(value) ==
    IF value.t = "str"
    THEN Obj(<<"type", "minLength">>, <<Str("string"), Num(1)>>)
    ELSE Obj(<<"type">>, <<Str(TypeOf(value))>>)

\* the schema of the array has the `items` of its first remaining element
ItemsOfFirst(array, node) ==
    IF Remaining(array)[1].t = "obj"
    THEN /\ InferredFor(Remaining(array)[1], Get(node, "items"))
         /\ SameRulesBelow(Remaining(array)[1], Get(node, "items"))
    ELSE Get(node, "items") = PrimitiveSchema(Remaining(array)[1])

SetOf(list) == {list[i] : i \in 1..Len(list)}

\* C23: a schema generated by schemaFrom(sample) is strict about the
\* top-level shape: for any input x that lacks a top-level key of the
\* sample, or has a top-level key the sample does not have,
\* test(schemaFrom(sample), x).success is false.  (`required` of the
\* generated schema lists the keys of the sample.)
C23_GeneratedSchemaStrict ==
    (/\ Returned
     /\ generated # Undefined
     /\ schema = generated
     /\ isObject(input)
     /\ SetOf(input.ks) # SetOf(NamesOf(schema, "required")))
        => ret.success = FALSE


RECURSIVE WrapDepth(_)
\* the number of nested objects o around the level where p is declared
WrapDepth(obj) ==
    IF Includes(ObjectKeys(obj), "o") THEN 1 + WrapDepth(Get(obj, "o")) ELSE 0

\* the number of Leaf Results produced under the key
KeyCount(key) == Cardinality({i \in 1..Len(results) : results[i].key = key})

\* the Leaf Results the value of p is to produce: one for the value, and
\* one per element when it is an array and `items` is declared
ExpectedLeaves ==
    1 + (IF isArray(GivenValue) /\ Get(LeafSchema, "items") # Undefined
         THEN Len(GivenValue.vs) ELSE 0)

\* C24: every declared value that is present, at every depth, yields
\* exactly one Leaf Result per test() call (plus one per array element when
\* `items` is declared): validation does not stop at the first failure, no
\* declared present value is skipped, none is validated twice, and errors
\* never holds two entries for the same failing value.
C24_ExactlyOneLeafResult ==
    (Tested /\ ~IsNullish(GivenValue)) =>
        /\ Returned
        /\ KeyCount("p") = ExpectedLeaves
        /\ LeafCount(GivenValue) = 1
        /\ KeyCount("o") = WrapDepth(input)
        /\ \A i, j \in 1..Len(ret.errors) : ret.errors[i] = ret.errors[j] => i = j


\* the checks of the leaf schema, in the documented order, that the value
\* does not pass; a check is applied when its key is in the schema
FailingChecks(leaf, value) ==
    {i \in 1..Len(Checks) :
        /\ Includes(ObjectKeys(leaf), Checks[i])
        /\ ~CheckValidator(Checks[i], leaf, value)}

\* the label of the first applied check that fails, '' when none does
ExpectedError(leaf, value) ==
    IF FailingChecks(leaf, value) = {} THEN ""
    ELSE CheckError(Checks[CHOOSE i \in FailingChecks(leaf, value) :
                               \A j \in FailingChecks(leaf, value) : i <= j])

\* C25: the field checks are applied in the fixed order type, format,
\* minLength, maxLength, minValue, maxValue, matchesPattern, each only when
\* its schema key is present; the Leaf Result's error is the label of the
\* first check that fails and its success is true, with error '', exactly
\* when no applied check fails.
C25_FirstFailingCheck ==
    Tested =>
        /\ Returned
        /\ \A i \in 1..Len(results) :
              (results[i].key = "p" /\ results[i].value = GivenValue) =>
                 /\ results[i].error = ExpectedError(LeafSchema, GivenValue)
                 /\ results[i].success <=> results[i].error = ""


\* the length the checks measure: the element count of an array, the
\* character count of the string form of any other value
MeasuredLength(value) == IF value.t = "arr" THEN Len(value.vs) ELSE Len(ToStr(value))

\* the leaf schema of p has no keys but length bounds
OnlyLengthBounds == SetOf(ObjectKeys(LeafSchema)) \subseteq {"minLength", "maxLength"}

TooShort ==
    /\ Includes(ObjectKeys(LeafSchema), "minLength")
    /\ MeasuredLength(GivenValue) < Get(LeafSchema, "minLength").n

TooLong ==
    /\ Includes(ObjectKeys(LeafSchema), "maxLength")
    /\ MeasuredLength(GivenValue) > Get(LeafSchema, "maxLength").n

\* C26: the length checks apply whenever minLength or maxLength is present
\* in the schema, a bound of 0 included, and are inclusive; an array is
\* measured by its element count, any other value by the character count of
\* its string form; 'Length too short' is reported iff the length is below
\* minLength and 'Length too long' iff it is above maxLength.
C26_LengthBounds ==
    (Tested /\ OnlyLengthBounds) =>
        /\ Returned
        /\ Rejects("Length too short") <=> TooShort
        /\ Rejects("Length too long") <=> (TooLong /\ ~TooShort)
        /\ ret.success <=> (~TooShort /\ ~TooLong)


RECURSIVE KeywordNode(_)
\* the schema node below the wrapping objects o
KeywordNode(node) ==
    IF Includes(ObjectKeys(node), "o") THEN KeywordNode(Get(node, "o")) ELSE node

\* the input keys of the level that are no declared child property of its
\* node: the metadata keys of the node declare nothing
UndeclaredKeys(node, level) ==
    SelectSeq(ObjectKeys(level),
              LAMBDA key : key \in ReservedKeys \/ ~Includes(ObjectKeys(node), key))

\* C27: the reserved metadata keys of a schema node are never treated as
\* child properties: no Leaf Result is produced under a reserved key, and
\* they do not count as declared child keys for the additional-properties
\* set, so an input key named `type` or `required` at a level with
\* additionalProperties=false is reported as extraneous.
C27_ReservedKeysNoProperties ==
    Tested =>
        /\ Returned
        /\ \A i \in 1..Len(results) : results[i].key \notin ReservedKeys
        /\ (/\ Get(KeywordNode(Get(schema, "properties")), "additionalProperties") = Bool(FALSE)
            /\ \E key \in {"type", "required"} : Includes(ObjectKeys(PropertyLevel(input)), key))
              => /\ ~ret.success
                 /\ \E i \in 1..Len(ret.errors) :
                       ret.errors[i].error =
                           "Has additional (disallowed) properties: '"
                           \o Join(UndeclaredKeys(KeywordNode(Get(schema, "properties")),
                                                  PropertyLevel(input)), ", ")
                           \o "'!"


\* the input objects of the levels of the traversal
Containers == {level.obj : level \in Levels(Get(schema, "properties"), input)}

\* C28: every Structural Error, 'missing required key' and 'disallowed
\* additional properties' alike, has the shape {key, value, success:false,
\* error} of a Leaf Result, and its value is the offending container: the
\* input object of the level where the violation was found.
C28_StructuralErrorShape ==
    Returned =>
        \A i \in 1..Len(errors) :
            /\ DOMAIN errors[i] = {"key", "value", "success", "error"}
            /\ errors[i].success = FALSE
            /\ errors[i].value \in Containers


\* a key the level's required list names is absent from the level's input
\* object, and the key's schema node declares a required list of its own
AbsentWithOwnRequired(level) ==
    \E i \in 1..Len(MissingAt(level)) :
        NamesOf(Get(level.node, MissingAt(level)[i]), "required") # <<>>

IsMissingKeyError(e) ==
    Len(e.error) >= 24 /\ SubSeq(e.error, 1, 24) = "Missing the required key"

\* C29: when a required key is absent and its schema node declares a
\* required list of its own, test() reports only the one missing-key error
\* of the level where the key is absent: no Structural Error is produced for
\* the absent object's own required keys, and no Structural Error ever
\* carries an undefined value.
C29_NoErrorForAbsentObject ==
    Returned =>
        /\ \A i \in 1..Len(errors) : errors[i].value # Undefined
        /\ \A level \in Levels(Get(schema, "properties"), input) :
              AbsentWithOwnRequired(level) =>
                 \A i \in 1..Len(errors) :
                    IsMissingKeyError(errors[i]) =>
                       \E other \in Levels(Get(schema, "properties"), input) :
                          errors[i] = MissingKeyError(MissingAt(other), other.obj)


RECURSIVE ObjectNesting(_)
\* the object nesting depth of a value: the largest number of plain objects
\* nested in one another, the value included; arrays add no level
ObjectNesting(value) ==
    IF value.t = "obj"
    THEN 1 + MaxOf({ObjectNesting(value.vs[i]) : i \in 1..Len(value.vs)})
    ELSE IF value.t = "arr"
         THEN MaxOf({ObjectNesting(value.vs[i]) : i \in 1..Len(value.vs)})
         ELSE 0

\* schemaFrom(input) has run and test() has not yet
Inferred == isObject(input) /\ pc \in {"generated", "ready"}

\* test(generated, input) has returned
RanTest == isObject(input) /\ pc = "returned"

====
